---------------------------- MODULE Spec2Model ----------------------------
(***************************************************************************)
(* Step tracker (src/main.cpp): two ConceptualBPlusTree stores, one of     *)
(* Individual records keyed by the integer id and one of Group records     *)
(* keyed by the string group_id, and the StepTrackerApp operations that    *)
(* keep the individual <-> group references.                               *)
(*                                                                         *)
(* A store is the sorted vector `data` of the tree, modelled as a sequence *)
(* of records.  A pointer returned by search is modelled as the 1-based    *)
(* index of the record in that sequence, 0 for nullptr.                    *)
(*                                                                         *)
(* Spec steps the StepTrackerApp operations on its two stores.  TreeSpec   *)
(* steps one ConceptualBPlusTree on its own, through insert, remove and    *)
(* getRange, next to a key-to-item map that the same calls are applied to. *)
(***************************************************************************)
EXTENDS Integers, Sequences, FiniteSets, TLC

VARIABLES individuals, groups, files, last, nops, saved, tree, ref, call

\* `last` is the last call on the application: its return value in `ret`
\* (in `top_3_result` for get_top_3), a tag for the line it printed last and
\* the figures it printed; `saved` is the registry as it stood at each call
\* of _save_data that the last call made, in the order of the calls.
vars == <<individuals, groups, files, last, nops, saved, tree, ref, call>>

\* The application's state, and the state of the tree stepped on its own.
appVars == <<individuals, groups, files, last, nops, saved>>
treeVars == <<tree, ref, call>>

(***************************************************************************)
(* Program constant and the bounds of the model.                           *)
(***************************************************************************)
MAX_MEMBERS == 5

NumIds == 6
MaxOps == 2
NumTreeKeys == 4

Ids == 1..NumIds

\* The empty string is the value the code uses for "no group".
NoGroup == ""

\* The group ids of the calls, in the order of std::less<std::string>.
GroupIdOrder == <<"", "A", "B">>
GroupIds == {GroupIdOrder[i] : i \in 1..Len(GroupIdOrder)}

\* The (group_name, weekly_group_goal) pairs of the calls: create_group is
\* called with the first, merge_groups with either.
CreateLabels == {[name |-> "n1", goal |-> 10]}
MergeLabels == CreateLabels \cup {[name |-> "n2", goal |-> 20]}

PersonNames == {"p"}
PersonAges == {30}
PersonGoals == {5}
PersonSteps == {<<>>, <<7>>}

(***************************************************************************)
(* The two instantiations of ConceptualBPlusTree<T, KeyType, Compare>,     *)
(* named by T: the key extractor given to the constructor, and the         *)
(* comparator std::less<int> or std::less<std::string>.                    *)
(***************************************************************************)
StrRank(s) == CHOOSE i \in 1..Len(GroupIdOrder) : GroupIdOrder[i] = s

key_extractor(T, obj) == IF T = "Individual" THEN obj.id ELSE obj.group_id

comp(T, a, b) == IF T = "Individual" THEN a < b ELSE StrRank(a) < StrRank(b)

(***************************************************************************)
(* Individual::Individual and Group::Group.                                *)
(***************************************************************************)
Individual(id, name, age, daily_step_goal, weekly_step_count) ==
    [id |-> id, name |-> name, age |-> age,
     daily_step_goal |-> daily_step_goal,
     weekly_step_count |-> weekly_step_count,
     current_group_id |-> NoGroup, points |-> 0]

\* Mutant: the list is kept in the order given.
SortInts_unsorted(s) == s

\* std::sort on a vector<int>: the ascending arrangement of the same entries.
\* The entry at position i goes to the position that counts the entries
\* before it in the order (equal entries keep their order).
SortInts(s) ==
    LET n == Len(s)
        rank(i) == 1 + Cardinality({j \in 1..n : s[j] < s[i] \/ (s[j] = s[i] /\ j < i)})
    IN [k \in 1..n |-> s[CHOOSE i \in 1..n : rank(i) = k]]

\* Mutant: the constructor leaves the duplicates in.
UniqueAdjacent_keep(s) == s

\* std::unique + erase: drops every entry equal to the one before it.
UniqueAdjacent(s) ==
    LET keep == {i \in 1..Len(s) : i = 1 \/ s[i] # s[i - 1]}
    IN [k \in 1..Cardinality(keep) |->
           s[CHOOSE i \in keep : Cardinality({j \in keep : j <= i}) = k]]

Group(group_id, group_name, member_ids, weekly_group_goal) ==
    [group_id |-> group_id, group_name |-> group_name,
     member_ids |-> UniqueAdjacent(SortInts(member_ids)),
     weekly_group_goal |-> weekly_group_goal,
     total_weekly_steps |-> 0]

(***************************************************************************)
(* ConceptualBPlusTree<T, ...> over the sequence `data`.                   *)
(***************************************************************************)
\* std::lower_bound over [begin, end): the first position whose key is not
\* less than `key`, data.end() when there is none.
LowerBound(T, data, key) ==
    LET notless == {i \in 1..Len(data) : ~comp(T, key_extractor(T, data[i]), key)}
    IN IF notless = {} THEN Len(data) + 1
       ELSE CHOOSE i \in notless : \A j \in notless : i <= j

\* Mutant: the search for the position is skipped and data.end() returned.
find_insert_pos_end(T, data, key) == Len(data) + 1

\* The iterator is a position 1..Len(data)+1; Len(data)+1 is data.end().
find_insert_pos(T, data, key) == LowerBound(T, data, key)

\* Mutant: a new item goes to the back of the vector, wherever its key
\* belongs.
insert_back(T, data, item) ==
    IF \E i \in 1..Len(data) :
           key_extractor(T, data[i]) = key_extractor(T, item)
    THEN data
    ELSE Append(data, item)

\* Mutant: an item whose key is stored takes the place of the stored one.
insert_overwrite(T, data, item) ==
    IF \E i \in 1..Len(data) :
           key_extractor(T, data[i]) = key_extractor(T, item)
    THEN [i \in 1..Len(data) |->
             IF key_extractor(T, data[i]) = key_extractor(T, item)
             THEN item ELSE data[i]]
    ELSE LET it == find_insert_pos(T, data, key_extractor(T, item))
         IN SubSeq(data, 1, it - 1) \o <<item>> \o SubSeq(data, it, Len(data))

insert(T, data, item) ==
    LET item_key == key_extractor(T, item)
        it == find_insert_pos(T, data, item_key)
    IN IF it # Len(data) + 1
          /\ ~comp(T, item_key, key_extractor(T, data[it]))
          /\ ~comp(T, key_extractor(T, data[it]), item_key)
       THEN data
       ELSE SubSeq(data, 1, it - 1) \o <<item>> \o SubSeq(data, it, Len(data))

\* Mutant: remove reports a removal whether or not a record went.
remove_result_always(T, data, key) == TRUE

\* remove_if + erase: every record whose key == key goes; the result is
\* whether one did.
remove_data(T, data, key) ==
    SelectSeq(data, LAMBDA obj : key_extractor(T, obj) # key)

remove_result(T, data, key) ==
    \E i \in 1..Len(data) : key_extractor(T, data[i]) = key

\* Mutant: the last position of the vector is taken for data.end().
search_short(T, data, key) ==
    LET it == find_insert_pos(T, data, key)
    IN IF it < Len(data)
          /\ ~comp(T, key, key_extractor(T, data[it]))
          /\ ~comp(T, key_extractor(T, data[it]), key)
       THEN it
       ELSE 0

\* 0 is nullptr, otherwise the position of the record found.
search(T, data, key) ==
    LET it == find_insert_pos(T, data, key)
    IN IF it # Len(data) + 1
          /\ ~comp(T, key, key_extractor(T, data[it]))
          /\ ~comp(T, key_extractor(T, data[it]), key)
       THEN it
       ELSE 0

\* Mutant: the scan stops at the first key that is not less than end_key,
\* so that the end of the range is left out.
getRange_exclusive(T, data, start_key, end_key) ==
    LET it_start == LowerBound(T, data, start_key)
        past == {i \in it_start..Len(data) :
                    ~comp(T, key_extractor(T, data[i]), end_key)}
    IN SubSeq(data, it_start,
              (IF past = {} THEN Len(data) + 1
               ELSE CHOOSE i \in past : \A j \in past : i <= j) - 1)

\* From the lower bound of start_key, the items up to the first one whose
\* key is greater than end_key, that one left out.
getRange(T, data, start_key, end_key) ==
    LET it_start == LowerBound(T, data, start_key)
        past == {i \in it_start..Len(data) :
                    /\ comp(T, end_key, key_extractor(T, data[i]))
                    /\ ~comp(T, key_extractor(T, data[i]), end_key)}
    IN SubSeq(data, it_start,
              (IF past = {} THEN Len(data) + 1
               ELSE CHOOSE i \in past : \A j \in past : i <= j) - 1)

getAllValues(data) == data

size(data) == Len(data)

SearchIndividual(inds, id) == search("Individual", inds, id)

SearchGroup(grps, gid) == search("Group", grps, gid)

(***************************************************************************)
(* StepTrackerApp::_save_data: the rows written to the two CSV files. The  *)
(* individuals file holds neither current_group_id nor points.             *)
(***************************************************************************)
IndividualRow(ind) ==
    [id |-> ind.id, name |-> ind.name, age |-> ind.age,
     daily_step_goal |-> ind.daily_step_goal,
     weekly_step_count |-> ind.weekly_step_count]

GroupRow(grp) ==
    [group_id |-> grp.group_id, group_name |-> grp.group_name,
     member_ids |-> grp.member_ids,
     weekly_group_goal |-> grp.weekly_group_goal]

save_data(inds, grps) ==
    [individuals |-> [i \in 1..Len(inds) |-> IndividualRow(inds[i])],
     groups |-> [i \in 1..Len(grps) |-> GroupRow(grps[i])]]

\* What an operation leaves behind: the two stores, the files, the value it
\* returns and a tag for the line it prints last.  The tag leaves out the
\* names in the line: after a removal they are read through a pointer into
\* the vector that the removal has invalidated (lines 563, 591 and 649), so
\* any text may come out there.  The files are taken to open for writing.
Outcome(inds, grps, fl, ret, msg) ==
    [inds |-> inds, grps |-> grps, files |-> fl, ret |-> ret, msg |-> msg]

\* What `last` holds after a call: the call, the value it returned and the
\* tag of its last line; the figures a report prints are filled in by the
\* reports (the top three, a group's total and goal, the leaderboard, the
\* points earned and the suggested goal).
Returned(op, ret, msg) ==
    [op |-> op, ret |-> ret, msg |-> msg, top_3_result |-> <<>>,
     total |-> 0, goal |-> 0, board |-> <<>>, points_earned |-> 0,
     new_goal |-> 0]

\* The registry as _save_data reads it when it is called.
Snapshot(inds, grps) == [inds |-> inds, grps |-> grps]

\* add_person, create_group, delete_individual and delete_group call
\* _save_data once, as their last statement before `return true`, and on no
\* path that returns false.
SavedBy(r) == IF r.ret THEN <<Snapshot(r.inds, r.grps)>> ELSE <<>>

(***************************************************************************)
(* StepTrackerApp::add_person                                              *)
(***************************************************************************)
\* Mutant: no test for a stored id; the offered record replaces a stored one.
AddPerson_overwrite(inds, grps, fl, id, name, age, goal, steps) ==
    LET kept == SelectSeq(inds, LAMBDA ind : ind.id # id)
        inds2 == insert("Individual", kept, Individual(id, name, age, goal, steps))
    IN Outcome(inds2, grps, save_data(inds2, grps), TRUE, "added")

AddPerson(inds, grps, fl, id, name, age, goal, steps) ==
    IF SearchIndividual(inds, id) # 0
    THEN Outcome(inds, grps, fl, FALSE, "individual_exists")
    ELSE LET inds2 == insert("Individual", inds,
                             Individual(id, name, age, goal, steps))
         IN Outcome(inds2, grps, save_data(inds2, grps), TRUE, "added")

(***************************************************************************)
(* StepTrackerApp::create_group                                            *)
(***************************************************************************)
\* Mutant: the loop skips only the ids that are not stored, and takes the
\* ones that already have a group.
FilterCandidates_any_stored(inds, member_ids) ==
    SelectSeq(member_ids, LAMBDA mid : SearchIndividual(inds, mid) # 0)

\* The loop of lines 358-369: the candidates that name a stored individual
\* with an empty current_group_id, in the order given, duplicates kept.
FilterCandidates(inds, member_ids) ==
    SelectSeq(member_ids,
              LAMBDA mid : /\ SearchIndividual(inds, mid) # 0
                           /\ inds[SearchIndividual(inds, mid)].current_group_id = NoGroup)

\* Mutant: the loop writes gid into every stored record, listed or not.
SetGroupOf_all(inds, mids, gid) ==
    [p \in 1..Len(inds) |-> [inds[p] EXCEPT !.current_group_id = gid]]

\* The loops of lines 379-384, 642-647 and 580-586: current_group_id := gid
\* in every record that search finds for a listed id.
SetGroupOf(inds, mids, gid) ==
    LET found == {SearchIndividual(inds, mids[i]) : i \in 1..Len(mids)}
    IN [p \in 1..Len(inds) |->
           IF p \in found THEN [inds[p] EXCEPT !.current_group_id = gid]
           ELSE inds[p]]

\* Mutant: the cap check lets one more id through.
TooManyCandidates_off_by_one(member_ids) == Len(member_ids) > MAX_MEMBERS + 1

\* Mutant: the cap check counts the distinct ids, not the entries.
TooManyCandidates_distinct(member_ids) ==
    Cardinality({member_ids[i] : i \in 1..Len(member_ids)}) > MAX_MEMBERS

\* The cap check of line 352, on the list as given.
TooManyCandidates(member_ids) == Len(member_ids) > MAX_MEMBERS

CreateGroup(inds, grps, fl, group_id, group_name, member_ids, weekly_group_goal) ==
    IF SearchGroup(grps, group_id) # 0
    THEN Outcome(inds, grps, fl, FALSE, "group_exists")
    ELSE IF TooManyCandidates(member_ids)
    THEN Outcome(inds, grps, fl, FALSE, "too_many_members")
    ELSE LET actual_member_ids == FilterCandidates(inds, member_ids)
         IN IF actual_member_ids = <<>>
            THEN Outcome(inds, grps, fl, FALSE, "no_valid_members")
            ELSE LET grps2 == insert("Group", grps,
                                  Group(group_id, group_name, actual_member_ids,
                                        weekly_group_goal))
                     inds2 == SetGroupOf(inds, actual_member_ids, group_id)
                 IN Outcome(inds2, grps2, save_data(inds2, grps2), TRUE, "created")

(***************************************************************************)
(* StepTrackerApp::get_top_3                                               *)
(***************************************************************************)
\* weekly_step_count.back()
LastDaySteps(ind) == ind.weekly_step_count[Len(ind.weekly_step_count)]

\* Mutant: every individual with step data is taken, the goal not looked at.
MetDailyGoal_unchecked(ind) == ind.weekly_step_count # <<>>

\* Lines 399-403: there is step data and the last entry reaches the goal.
MetDailyGoal(ind) ==
    /\ ind.weekly_step_count # <<>>
    /\ LastDaySteps(ind) >= ind.daily_step_goal

\* eligible_individuals before the sort: pointers, in the order of the store.
EligibleIndividuals(inds) ==
    SelectSeq([p \in 1..Len(inds) |-> p], LAMBDA p : MetDailyGoal(inds[p]))

SeqToSetOfPointers(s) == {s[i] : i \in 1..Len(s)}

\* std::sort with the comparator of lines 408-410.  It leaves some
\* arrangement of the same pointers in which none comes before one with
\* more last-day steps; the order among pointers with equal last-day steps
\* is unspecified, so every such arrangement is an outcome.
SortOutcomes(inds, eligible) ==
    {s \in [1..Len(eligible) -> SeqToSetOfPointers(eligible)] :
        /\ \A i \in 1..Len(s) : \A j \in 1..Len(s) : i # j => s[i] # s[j]
        /\ \A i \in 1..Len(s) : \A j \in 1..Len(s) :
               i < j => ~(LastDaySteps(inds[s[j]]) > LastDaySteps(inds[s[i]]))}

\* Lines 418-425: the first min(3, size) pointers.
FirstThree(sorted) ==
    SubSeq(sorted, 1, IF Len(sorted) < 3 THEN Len(sorted) ELSE 3)

\* The vectors get_top_3 can return.
GetTop3(inds) ==
    {FirstThree(s) : s \in SortOutcomes(inds, EligibleIndividuals(inds))}

(***************************************************************************)
(* StepTrackerApp::check_group_achievement                                 *)
(***************************************************************************)
RECURSIVE SumSteps(_)
\* The inner loop of lines 443-445 (and 475-477): the entries added up.
SumSteps(weekly_step_count) ==
    IF weekly_step_count = <<>> THEN 0
    ELSE Head(weekly_step_count) + SumSteps(Tail(weekly_step_count))

\* Mutant: only the last day of a member is counted.
MemberSteps_last_day(inds, member_id) ==
    LET p == SearchIndividual(inds, member_id)
    IN IF p # 0 /\ inds[p].weekly_step_count # <<>>
       THEN LastDaySteps(inds[p]) ELSE 0

\* Lines 441-446: what one member id adds to the total: nothing when search
\* finds no record or the record has no step data.
MemberSteps(inds, member_id) ==
    LET p == SearchIndividual(inds, member_id)
    IN IF p # 0 /\ inds[p].weekly_step_count # <<>>
       THEN SumSteps(inds[p].weekly_step_count) ELSE 0

RECURSIVE TotalGroupSteps(_, _)
\* The loop of lines 440-447 (and 472-479) over member_ids, entry by entry.
TotalGroupSteps(inds, member_ids) ==
    IF member_ids = <<>> THEN 0
    ELSE MemberSteps(inds, Head(member_ids))
         + TotalGroupSteps(inds, Tail(member_ids))

\* Lines 433-436: the error line and `return false`.
GroupNotFound(inds, grps, fl) ==
    Outcome(inds, grps, fl, FALSE, "group_not_found")

\* The total is written into the stored group (line 449) and the files are
\* saved before the result is printed and returned.
CheckGroupAchievement(inds, grps, fl, group_id) ==
    LET g == SearchGroup(grps, group_id)
    IN IF g = 0
       THEN GroupNotFound(inds, grps, fl)
       ELSE LET total_group_steps == TotalGroupSteps(inds, grps[g].member_ids)
                grps2 == [grps EXCEPT ![g].total_weekly_steps = total_group_steps]
            IN IF total_group_steps >= grps[g].weekly_group_goal
               THEN Outcome(inds, grps2, save_data(inds, grps2), TRUE,
                            "goal_achieved")
               ELSE Outcome(inds, grps2, save_data(inds, grps2), FALSE,
                            "goal_not_achieved")

(***************************************************************************)
(* StepTrackerApp::check_individual_rewards                                *)
(***************************************************************************)
\* Mutant: every rank earns what the first rank earns.
rewards_map_flat(rank) == 100

\* rewards_map of line 516, by 0-based rank.
rewards_map(rank) ==
    CASE rank = 0 -> 100
      [] rank = 1 -> 75
      [] rank = 2 -> 50

\* Mutant: whoever is asked about is taken to be first.
FoundRank_always_first(inds, top_3_individuals, individual_id) == 0

\* The loop of lines 519-525: the 0-based index of the first pointer of
\* top_3_individuals whose record has the id, -1 when there is none.
FoundRank(inds, top_3_individuals, individual_id) ==
    LET hits == {i \in 1..Len(top_3_individuals) :
                    inds[top_3_individuals[i]].id = individual_id}
    IN IF hits = {} THEN -1
       ELSE (CHOOSE i \in hits : \A j \in hits : i <= j) - 1

\* Mutant: the points earned replace the points held.
AwardPoints_replace(points, points_earned) == points_earned

\* Line 529: individual->points += points_earned.
AwardPoints(points, points_earned) == points + points_earned

\* The function returns nothing (ret is left TRUE); top_3_individuals is
\* what its call of get_top_3 returned.  _save_data is called on the path
\* that awards points and on no other.
CheckIndividualRewards(inds, grps, fl, individual_id, top_3_individuals) ==
    LET p == SearchIndividual(inds, individual_id)
        found_rank == FoundRank(inds, top_3_individuals, individual_id)
    IN IF p = 0
       THEN Outcome(inds, grps, fl, TRUE, "individual_not_found")
       ELSE IF found_rank # -1
       THEN LET inds2 == [inds EXCEPT ![p].points =
                              AwardPoints(@, rewards_map(found_rank))]
            IN Outcome(inds2, grps, save_data(inds2, grps), TRUE, "points_earned")
       ELSE Outcome(inds, grps, fl, TRUE, "not_in_top_3")

(***************************************************************************)
(* StepTrackerApp::delete_individual                                       *)
(***************************************************************************)
\* std::remove + erase on member_ids: every entry equal to id goes.
RemoveMember(member_ids, id) == SelectSeq(member_ids, LAMBDA m : m # id)

DeleteIndividual(inds, grps, fl, individual_id) ==
    LET p == SearchIndividual(inds, individual_id)
    IN IF p = 0
       THEN Outcome(inds, grps, fl, FALSE, "individual_not_found")
       ELSE LET g == IF inds[p].current_group_id # NoGroup
                     THEN SearchGroup(grps, inds[p].current_group_id)
                     ELSE 0
                grps2 == IF g = 0 THEN grps
                         ELSE [grps EXCEPT ![g].member_ids =
                                   RemoveMember(grps[g].member_ids, individual_id)]
            IN IF remove_result("Individual", inds, individual_id)
               THEN LET inds2 == remove_data("Individual", inds, individual_id)
                    IN Outcome(inds2, grps2, save_data(inds2, grps2), TRUE,
                               "individual_deleted")
               ELSE Outcome(inds, grps2, fl, FALSE, "individual_delete_failed")

(***************************************************************************)
(* StepTrackerApp::delete_group                                            *)
(***************************************************************************)
DeleteGroup(inds, grps, fl, group_id) ==
    LET g == SearchGroup(grps, group_id)
    IN IF g = 0
       THEN Outcome(inds, grps, fl, FALSE, "group_not_found")
       ELSE LET inds2 == SetGroupOf(inds, grps[g].member_ids, NoGroup)
            IN IF remove_result("Group", grps, group_id)
               THEN LET grps2 == remove_data("Group", grps, group_id)
                    IN Outcome(inds2, grps2, save_data(inds2, grps2), TRUE,
                               "group_deleted")
               ELSE Outcome(inds2, grps, fl, FALSE, "group_delete_failed")

(***************************************************************************)
(* The registry after each write of the two delete operations, in the      *)
(* order of the writes.                                                    *)
(***************************************************************************)
\* delete_individual: the erase from the owning group's member_ids (lines
\* 548-557; no write when current_group_id is empty, names no stored group
\* or the group does not list the id), then the removal of the record
\* (line 561).
DeleteIndividualSteps(inds, grps, individual_id) ==
    LET p == SearchIndividual(inds, individual_id)
    IN IF p = 0 THEN <<>>
       ELSE LET g == IF inds[p].current_group_id # NoGroup
                     THEN SearchGroup(grps, inds[p].current_group_id)
                     ELSE 0
                grps2 == IF g = 0 THEN grps
                         ELSE [grps EXCEPT ![g].member_ids =
                                   RemoveMember(grps[g].member_ids, individual_id)]
                inds2 == remove_data("Individual", inds, individual_id)
            IN (IF grps2 # grps THEN <<Snapshot(inds, grps2)>> ELSE <<>>)
               \o <<Snapshot(inds2, grps2)>>

\* delete_group: current_group_id cleared member by member, for the members
\* that search finds (lines 580-586), then the removal of the group (line
\* 589).
DeleteGroupSteps(inds, grps, group_id) ==
    LET g == SearchGroup(grps, group_id)
    IN IF g = 0 THEN <<>>
       ELSE LET member_ids == grps[g].member_ids
                cleared(k) == SetGroupOf(inds, SubSeq(member_ids, 1, k), NoGroup)
                found == SelectSeq([k \in 1..Len(member_ids) |-> k],
                             LAMBDA k : SearchIndividual(inds, member_ids[k]) # 0)
            IN [i \in 1..Len(found) |-> Snapshot(cleared(found[i]), grps)]
               \o <<Snapshot(cleared(Len(member_ids)),
                             remove_data("Group", grps, group_id))>>

(***************************************************************************)
(* StepTrackerApp::merge_groups                                            *)
(***************************************************************************)
\* std::set<int> read back in ascending order.
SetToSortedSeq(S) ==
    [k \in 1..Cardinality(S) |->
        CHOOSE x \in S : Cardinality({y \in S : y < x}) = k - 1]

SeqToSet(s) == {s[i] : i \in 1..Len(s)}

\* Mutant: only the first group's members are carried over.
MergedMemberIds_first_only(grp1, grp2) == grp1.member_ids

MergedMemberIds(grp1, grp2) ==
    SetToSortedSeq(SeqToSet(grp1.member_ids) \cup SeqToSet(grp2.member_ids))

\* Mutant: the cap check is missing, so an oversized merge goes on to delete.
MergeTooMany_unchecked(merged_member_ids) == FALSE

\* The cap check of line 621, on the merged list.
MergeTooMany(merged_member_ids) == Len(merged_member_ids) > MAX_MEMBERS

\* Mutant: nothing is printed after the second delete fails, so that the
\* last line is delete_group's own "not found".
MergeSecondDeleteFailed_silent(d2) ==
    Outcome(d2.inds, d2.grps, d2.files, FALSE, "group2_not_found")

\* Lines 631-635: the second delete_group returned false; d2 is what it
\* left.  merge_groups prints "Could not delete original group" and returns
\* false, undoing nothing.
MergeSecondDeleteFailed(d2) ==
    Outcome(d2.inds, d2.grps, d2.files, FALSE, "merge_delete2_failed")

MergeGroups(inds, grps, fl, group_id_1, group_id_2, new_group_name, new_weekly_goal) ==
    LET g1 == SearchGroup(grps, group_id_1)
        g2 == SearchGroup(grps, group_id_2)
    IN IF g1 = 0
       THEN Outcome(inds, grps, fl, FALSE, "group1_not_found")
       ELSE IF g2 = 0
       THEN Outcome(inds, grps, fl, FALSE, "group2_not_found")
       ELSE
       LET merged_member_ids == MergedMemberIds(grps[g1], grps[g2])
       IN IF MergeTooMany(merged_member_ids)
          THEN Outcome(inds, grps, fl, FALSE, "merge_exceeds_max")
          ELSE
          LET d1 == DeleteGroup(inds, grps, fl, group_id_1)
          IN IF ~d1.ret
             THEN Outcome(d1.inds, d1.grps, d1.files, FALSE, "merge_delete1_failed")
             ELSE
             LET d2 == DeleteGroup(d1.inds, d1.grps, d1.files, group_id_2)
             IN IF ~d2.ret
                THEN MergeSecondDeleteFailed(d2)
                ELSE
                LET grps3 == insert("Group", d2.grps,
                                 Group(group_id_1, new_group_name, merged_member_ids,
                                       new_weekly_goal))
                    inds3 == SetGroupOf(d2.inds, merged_member_ids, group_id_1)
                IN Outcome(inds3, grps3, save_data(inds3, grps3), TRUE, "merged")

\* The calls of _save_data during merge_groups: one in each nested
\* delete_group that succeeds (line 588), and the one of line 648.
MergeSaves(inds, grps, fl, group_id_1, group_id_2, new_group_name, new_weekly_goal) ==
    LET g1 == SearchGroup(grps, group_id_1)
        g2 == SearchGroup(grps, group_id_2)
    IN IF g1 = 0 \/ g2 = 0 THEN <<>>
       ELSE IF MergeTooMany(MergedMemberIds(grps[g1], grps[g2])) THEN <<>>
       ELSE LET d1 == DeleteGroup(inds, grps, fl, group_id_1)
                d2 == DeleteGroup(d1.inds, d1.grps, d1.files, group_id_2)
                r == MergeGroups(inds, grps, fl, group_id_1, group_id_2,
                                 new_group_name, new_weekly_goal)
            IN IF ~d1.ret THEN <<>>
               ELSE SavedBy(d1) \o SavedBy(d2) \o SavedBy(r)

(***************************************************************************)
(* StepTrackerApp::generate_leader_board                                   *)
(***************************************************************************)
\* groups_with_steps before the sort (lines 470-482): for every stored
\* group, in the order of the store, a pointer to it and its total.  The
\* total is not written into the group.
GroupsWithSteps(inds, grps) ==
    [g \in 1..Len(grps) |->
        [first |-> g, second |-> TotalGroupSteps(inds, grps[g].member_ids)]]

\* std::sort with the comparator of lines 485-488 (a.second > b.second).
\* It leaves some arrangement of the same pairs in which none comes before
\* one with a greater total; the order among pairs with equal totals is
\* unspecified, so every such arrangement is an outcome.
LeaderBoardOutcomes(groups_with_steps) ==
    {s \in [1..Len(groups_with_steps) -> SeqToSet(groups_with_steps)] :
        /\ \A i \in 1..Len(s) : \A j \in 1..Len(s) : i # j => s[i] # s[j]
        /\ \A i \in 1..Len(s) : \A j \in 1..Len(s) :
               i < j => ~(s[j].second > s[i].second)}

(***************************************************************************)
(* StepTrackerApp::suggest_goal_update                                     *)
(***************************************************************************)
\* achieved_days of lines 749-754: the entries that reach the goal.
AchievedDays(ind) ==
    Cardinality({d \in DOMAIN ind.weekly_step_count :
                    ind.weekly_step_count[d] >= ind.daily_step_goal})

\* The arithmetic of lines 758-775 is in IEEE-754 double: 1.2, 1.1, 0.8 and
\* 0.9 are the doubles nearest to these decimals (1.2 a little below, the
\* other three a little above), the int goal is converted exactly, and
\* each product and the quotient total / total_days is rounded to the
\* nearest double.  For goals and totals of the size the model uses:
\*  - when total / total_days and 6 * goal / 5 differ as rationals, they
\*    differ by at least 1 / (5 * total_days), far more than the rounding,
\*    and the comparison comes out as for the rationals (likewise 4/5);
\*  - when they are equal, the quotient is the double nearest to their
\*    common value, and the comparison depends on which way the product
\*    goal * 1.2 (goal * 0.8) was rounded; the two sets below list, for the
\*    goals 1..13, those whose product ends below (above) that double:
\*    12 * 1.2 = 14.399999999999999 < 14.4, 12 * 0.8 = 9.600000000000001 >
\*    9.6, while 10 * 1.2 = 12.0 and 5 * 0.8 = 4.0 are exact;
\*  - goal * 1.1 and goal * 0.9 are never below an integer that the exact
\*    product reaches, so static_cast<int> gives the floor of 11 * goal / 10
\*    and of 9 * goal / 10.
Times12RoundsLow == {3, 6, 9, 12}

Times08RoundsHigh == {3, 6, 7, 12}

\* Line 765: current_daily_avg > daily_step_goal * 1.2.
AvgExceedsGoalTimes12(total, total_days, goal) ==
    IF 5 * total = 6 * goal * total_days
    THEN goal \in Times12RoundsLow
    ELSE 5 * total > 6 * goal * total_days

\* Line 774: current_daily_avg < daily_step_goal * 0.8.
AvgBelowGoalTimes08(total, total_days, goal) ==
    IF 5 * total = 4 * goal * total_days
    THEN goal \in Times08RoundsHigh
    ELSE 5 * total < 4 * goal * total_days

\* Line 766: static_cast<int>(daily_step_goal * 1.1).
TruncGoalTimes11(goal) == (11 * goal) \div 10

\* Line 775: static_cast<int>(daily_step_goal * 0.9).
TruncGoalTimes09(goal) == (9 * goal) \div 10

\* The branch taken, as the tag of the message printed, and new_goal (for
\* the two exits before it is declared, the goal as it stands).  Nothing
\* is written to the record and nothing is saved: lines 791-792 are
\* commented out.
SuggestGoalUpdate(inds, individual_id) ==
    LET p == SearchIndividual(inds, individual_id)
    IN IF p = 0
       THEN [msg |-> "individual_not_found", new_goal |-> 0]
       ELSE
       LET individual == inds[p]
           goal == individual.daily_step_goal
           total == SumSteps(individual.weekly_step_count)
           total_days == Len(individual.weekly_step_count)
       IN IF total_days < 7
          THEN [msg |-> "not_enough_data", new_goal |-> goal]
          ELSE IF AchievedDays(individual) >= 6
          THEN IF AvgExceedsGoalTimes12(total, total_days, goal)
               THEN [msg |-> "increase_goal", new_goal |-> TruncGoalTimes11(goal)]
               ELSE [msg |-> "goal_appropriate", new_goal |-> goal]
          ELSE IF AchievedDays(individual) <= 2
          THEN IF AvgBelowGoalTimes08(total, total_days, goal)
               THEN [msg |-> "lower_goal", new_goal |-> TruncGoalTimes09(goal)]
               ELSE [msg |-> "sometimes_miss", new_goal |-> goal]
          ELSE [msg |-> "mixed", new_goal |-> goal]

(***************************************************************************)
(* StepTrackerApp::_load_data.  A line of a file is the sequence of its    *)
(* comma-separated fields; an int is written in decimal and read back by   *)
(* stoi as the same int, the names and ids of the model hold no comma, and *)
(* no line ends in an empty field (which split would drop).  The third     *)
(* field of a group line is the list of member ids joined by ';', read     *)
(* back entry by entry.                                                    *)
(***************************************************************************)
\* Lines 289-295: id, name, age, goal, then one field per step entry.
IndividualLine(row) ==
    <<row.id, row.name, row.age, row.daily_step_goal>> \o row.weekly_step_count

\* Lines 309-315.
GroupLine(row) ==
    <<row.group_id, row.group_name, row.member_ids, row.weekly_group_goal>>

RECURSIVE LoadIndividuals(_, _)
\* Lines 203-224: a line of fewer than 5 fields is skipped; the others are
\* inserted as new Individuals (no group, no points).
LoadIndividuals(inds, rows) ==
    IF rows = <<>> THEN inds
    ELSE LET parts == IndividualLine(Head(rows))
         IN LoadIndividuals(
                IF Len(parts) < 5 THEN inds
                ELSE insert("Individual", inds,
                            Individual(parts[1], parts[2], parts[3], parts[4],
                                       SubSeq(parts, 5, Len(parts)))),
                Tail(rows))

RECURSIVE LoadGroups(_, _, _)
\* Lines 238-268: a line of fewer than 4 fields is skipped; the others are
\* inserted as new Groups, and the group id is written into every member
\* of the stored group that search finds.
LoadGroups(inds, grps, rows) ==
    IF rows = <<>> THEN [inds |-> inds, grps |-> grps]
    ELSE LET parts == GroupLine(Head(rows))
         IN IF Len(parts) < 4 THEN LoadGroups(inds, grps, Tail(rows))
            ELSE LET grps2 == insert("Group", grps,
                                  Group(parts[1], parts[2], parts[3], parts[4]))
                     g == SearchGroup(grps2, parts[1])
                     inds2 == IF g = 0 THEN inds
                              ELSE SetGroupOf(inds, grps2[g].member_ids, parts[1])
                 IN LoadGroups(inds2, grps2, Tail(rows))

\* The registry a new StepTrackerApp starts with, given the two files.
load_data(fl) ==
    LET inds == LoadIndividuals(<<>>, fl.individuals)
    IN LoadGroups(inds, <<>>, fl.groups)

(***************************************************************************)
(* The calls a client makes.                                               *)
(***************************************************************************)
\* Descending run hi, hi-1, .., lo: not in the order member_ids is kept in.
Desc(lo, hi) == [i \in 1..(hi - lo + 1) |-> hi - i + 1]

\* Candidate lists of create_group: the empty list; the descending runs of
\* 1, 2, MAX_MEMBERS and MAX_MEMBERS + 1 ids; and the runs of 1 and of
\* MAX_MEMBERS ids with the first id repeated at the end.
RunsOfLen(n) == {Desc(lo, lo + n - 1) : lo \in {l \in Ids : l + n - 1 <= NumIds}}

Candidates ==
    {<<>>}
    \cup RunsOfLen(1) \cup RunsOfLen(2)
    \cup RunsOfLen(MAX_MEMBERS) \cup RunsOfLen(MAX_MEMBERS + 1)
    \cup {c \o <<c[1]>> : c \in RunsOfLen(1) \cup RunsOfLen(MAX_MEMBERS)}

(***************************************************************************)
(* The registries a run starts from: the empty one, and the ones that a    *)
(* prefix of calls on the empty one leaves (as main starts from a          *)
(* generated population with groups): every id added; then two groups of   *)
(* two created; or two groups created whose members together are one more  *)
(* than MAX_MEMBERS; or every id added with a step history and two groups  *)
(* created of them.                                                        *)
(***************************************************************************)
Empty == Outcome(<<>>, <<>>, [individuals |-> <<>>, groups |-> <<>>], TRUE, "loaded")

\* What add_person(1, ..), .., add_person(NumIds, ..) leave: a record per
\* id, in ascending order, none in a group, and the files saved last.
Populated ==
    LET inds == [i \in 1..NumIds |-> Individual(i, "p", 30, 5, <<>>)]
    IN Outcome(inds, <<>>, save_data(inds, <<>>), TRUE, "added")

\* Groups "A" and "B" created with the ids 1..n and n+1..2n.
TwoGroupsOf(n) ==
    LET a == CreateGroup(Populated.inds, Populated.grps, Populated.files,
                         "A", "n1", Desc(1, n), 10)
    IN CreateGroup(a.inds, a.grps, a.files, "B", "n2", Desc(n + 1, 2 * n), 20)

Paired == TwoGroupsOf(2)

GroupSize == (MAX_MEMBERS + 1) \div 2

Grouped == TwoGroupsOf(GroupSize)

\* The goal and step history of the walkers, by id: one short of a goal
\* that is above everyone's steps; two with equal last-day steps, one of
\* them below the goal on the day before; one ahead of both on each of
\* seven days; one exactly
\* at the goal; one with no step data.
WalkerProfiles ==
    << [goal |-> 10, steps |-> <<9>>],
       [goal |-> 5, steps |-> <<3, 7>>],
       [goal |-> 5, steps |-> <<7>>],
       [goal |-> 5, steps |-> <<8, 8, 8, 8, 8, 8, 8>>],
       [goal |-> 5, steps |-> <<5>>],
       [goal |-> 5, steps |-> <<>>] >>

WalkerProfile(i) == WalkerProfiles[((i - 1) % Len(WalkerProfiles)) + 1]

\* What add_person calls for every id with these goals and histories leave.
Walkers ==
    LET inds == [i \in 1..NumIds |->
                    Individual(i, "p", 30, WalkerProfile(i).goal,
                               WalkerProfile(i).steps)]
    IN Outcome(inds, <<>>, save_data(inds, <<>>), TRUE, "added")

\* The walkers with two groups created: "A" of the ids 1 and 2, whose steps
\* add up to exactly its goal, and "B" of the ids 3 and 4, with more steps
\* than "A" and a goal it is short of.
TeamGoals == [A |-> 19, B |-> 100]

Teams ==
    LET a == CreateGroup(Walkers.inds, Walkers.grps, Walkers.files,
                         "A", "n1", Desc(1, 2), TeamGoals.A)
    IN CreateGroup(a.inds, a.grps, a.files, "B", "n2", Desc(3, 4), TeamGoals.B)

StartStates == {Empty, Populated, Paired, Grouped, Teams}

\* Every call is one step: the stores and files it leaves, its return value
\* and printed line in `last`, and one more call counted.
add_person(id, name, age, goal, steps) ==
    /\ nops < MaxOps
    /\ nops' = nops + 1
    /\ \E r \in {AddPerson(individuals, groups, files, id, name, age, goal, steps)} :
          /\ individuals' = r.inds
          /\ groups' = r.grps
          /\ files' = r.files
          /\ last' = Returned("add_person", r.ret, r.msg)
          /\ saved' = SavedBy(r)
    /\ UNCHANGED treeVars

create_group(group_id, group_name, member_ids, weekly_group_goal) ==
    /\ nops < MaxOps
    /\ nops' = nops + 1
    /\ \E r \in {CreateGroup(individuals, groups, files, group_id, group_name,
                         member_ids, weekly_group_goal)} :
          /\ individuals' = r.inds
          /\ groups' = r.grps
          /\ files' = r.files
          /\ last' = Returned("create_group", r.ret, r.msg)
          /\ saved' = SavedBy(r)
    /\ UNCHANGED treeVars

delete_individual(individual_id) ==
    /\ nops < MaxOps
    /\ nops' = nops + 1
    /\ \E r \in {DeleteIndividual(individuals, groups, files, individual_id)} :
          /\ individuals' = r.inds
          /\ groups' = r.grps
          /\ files' = r.files
          /\ last' = Returned("delete_individual", r.ret, r.msg)
          /\ saved' = SavedBy(r)
    /\ UNCHANGED treeVars

delete_group(group_id) ==
    /\ nops < MaxOps
    /\ nops' = nops + 1
    /\ \E r \in {DeleteGroup(individuals, groups, files, group_id)} :
          /\ individuals' = r.inds
          /\ groups' = r.grps
          /\ files' = r.files
          /\ last' = Returned("delete_group", r.ret, r.msg)
          /\ saved' = SavedBy(r)
    /\ UNCHANGED treeVars

merge_groups(group_id_1, group_id_2, new_group_name, new_weekly_goal) ==
    /\ nops < MaxOps
    /\ nops' = nops + 1
    /\ \E r \in {MergeGroups(individuals, groups, files, group_id_1, group_id_2,
                         new_group_name, new_weekly_goal)} :
          /\ individuals' = r.inds
          /\ groups' = r.grps
          /\ files' = r.files
          /\ last' = Returned("merge_groups", r.ret, r.msg)
          /\ saved' = MergeSaves(individuals, groups, files, group_id_1, group_id_2,
                               new_group_name, new_weekly_goal)
    /\ UNCHANGED treeVars

\* The stores are only read; nothing is saved.
get_top_3 ==
    /\ nops < MaxOps
    /\ nops' = nops + 1
    /\ \E top_3_result \in GetTop3(individuals) :
          last' = [Returned("get_top_3", TRUE,
                            IF top_3_result = <<>> THEN "none_met_goal" ELSE "top_3")
                   EXCEPT !.top_3_result = top_3_result]
    /\ saved' = <<>>
    /\ UNCHANGED <<individuals, groups, files>>
    /\ UNCHANGED treeVars

\* The goal and the total are printed for a group that is found.
check_group_achievement(group_id) ==
    /\ nops < MaxOps
    /\ nops' = nops + 1
    /\ \E r \in {CheckGroupAchievement(individuals, groups, files, group_id)} :
          /\ individuals' = r.inds
          /\ groups' = r.grps
          /\ files' = r.files
          /\ last' = [Returned("check_group_achievement", r.ret, r.msg)
                      EXCEPT !.total =
                                 IF SearchGroup(groups, group_id) = 0 THEN 0
                                 ELSE r.grps[SearchGroup(groups, group_id)]
                                          .total_weekly_steps,
                             !.goal =
                                 IF SearchGroup(groups, group_id) = 0 THEN 0
                                 ELSE groups[SearchGroup(groups, group_id)]
                                          .weekly_group_goal]
          /\ saved' = IF SearchGroup(groups, group_id) = 0 THEN <<>>
                      ELSE <<Snapshot(r.inds, r.grps)>>
    /\ UNCHANGED treeVars

\* The stores are only read; nothing is saved.  `board` is the ranking
\* printed, rank by rank.
generate_leader_board ==
    /\ nops < MaxOps
    /\ nops' = nops + 1
    /\ \E groups_with_steps \in LeaderBoardOutcomes(GroupsWithSteps(individuals, groups)) :
          last' = [Returned("generate_leader_board", TRUE,
                            IF groups_with_steps = <<>> THEN "no_groups"
                            ELSE "leaderboard")
                   EXCEPT !.board = groups_with_steps]
    /\ saved' = <<>>
    /\ UNCHANGED <<individuals, groups, files>>
    /\ UNCHANGED treeVars

\* The stores are only read; nothing is saved.
suggest_goal_update(individual_id) ==
    /\ nops < MaxOps
    /\ nops' = nops + 1
    /\ \E r \in {SuggestGoalUpdate(individuals, individual_id)} :
          last' = [Returned("suggest_goal_update", TRUE, r.msg)
                   EXCEPT !.new_goal = r.new_goal]
    /\ saved' = <<>>
    /\ UNCHANGED <<individuals, groups, files>>
    /\ UNCHANGED treeVars

\* get_top_3 is called only once the individual is found (line 513); the
\* vector it returned and the points printed are kept in `last`.
check_individual_rewards(individual_id) ==
    /\ nops < MaxOps
    /\ nops' = nops + 1
    /\ \E top_3_individuals \in GetTop3(individuals) :
       \E r \in {CheckIndividualRewards(individuals, groups, files, individual_id,
                                       top_3_individuals)} :
          /\ individuals' = r.inds
          /\ groups' = r.grps
          /\ files' = r.files
          /\ last' = [Returned("check_individual_rewards", r.ret, r.msg)
                      EXCEPT !.top_3_result =
                                 IF r.msg = "individual_not_found" THEN <<>>
                                 ELSE top_3_individuals,
                             !.points_earned =
                                 IF r.msg = "points_earned"
                                 THEN rewards_map(FoundRank(individuals,
                                          top_3_individuals, individual_id))
                                 ELSE 0]
          /\ saved' = IF r.msg = "points_earned"
                      THEN <<Snapshot(r.inds, r.grps)>> ELSE <<>>
    /\ UNCHANGED treeVars

\* No call made yet on the tree stepped on its own.
NoCall ==
    [op |-> "new", item |-> <<>>, keys |-> <<>>, ret |-> TRUE, pos |-> 0,
     items |-> <<>>]

\* A run starts from one of the start registries, no call made yet.
Init ==
    \E r \in StartStates :
        /\ individuals = r.inds
        /\ groups = r.grps
        /\ files = r.files
        /\ last = Returned("start", TRUE, "loaded")
        /\ saved = <<>>
        /\ nops = 0
        /\ tree = [T |-> "Individual", data |-> <<>>]
        /\ ref = <<>>
        /\ call = NoCall

Next ==
    \/ \E id \in Ids, name \in PersonNames, age \in PersonAges,
          goal \in PersonGoals, steps \in PersonSteps :
          add_person(id, name, age, goal, steps)
    \/ \E gid \in GroupIds, lab \in CreateLabels, cands \in Candidates :
          create_group(gid, lab.name, cands, lab.goal)
    \/ \E id \in Ids : delete_individual(id)
    \/ \E gid \in GroupIds : delete_group(gid)
    \/ \E g1 \in GroupIds, g2 \in GroupIds, lab \in MergeLabels :
          merge_groups(g1, g2, lab.name, lab.goal)
    \/ get_top_3
    \/ \E id \in Ids : check_individual_rewards(id)
    \/ \E gid \in GroupIds : check_group_achievement(gid)
    \/ generate_leader_board
    \/ \E id \in Ids : suggest_goal_update(id)

Spec == Init /\ [][Next]_vars

(***************************************************************************)
(* suggest_goal_update on its own, over one stored individual whose goal   *)
(* and step history are drawn from a family: 6, 7 or 10 days, of which the *)
(* first k are at a high level and the rest at a low one.                  *)
(***************************************************************************)
SuggestGoals == {10, 12}

HistoryLengths == {6, 7, 10}

StepLevels == {[lo |-> 9, hi |-> 10], [lo |-> 9, hi |-> 15], [lo |-> 14, hi |-> 15]}

History(n, lv, k) == [d \in 1..n |-> IF d <= k THEN lv.hi ELSE lv.lo]

StepHistories ==
    {History(n, lv, k) : n \in HistoryLengths, lv \in StepLevels, k \in 0..10}

GoalInit ==
    \E goal \in SuggestGoals, steps \in StepHistories :
        \E r \in {AddPerson(<<>>, <<>>, Empty.files, 1, "p", 30, goal, steps)} :
            /\ individuals = r.inds
            /\ groups = r.grps
            /\ files = r.files
            /\ last = Returned("start", TRUE, "loaded")
            /\ saved = <<>>
            /\ nops = 0
            /\ tree = [T |-> "Individual", data |-> <<>>]
            /\ ref = <<>>
            /\ call = NoCall

GoalNext == \E id \in Ids : suggest_goal_update(id)

GoalSpec == GoalInit /\ [][GoalNext]_vars

(***************************************************************************)
(* The application closed and started again: a new StepTrackerApp is       *)
(* constructed, which loads the registry from the files as the calls       *)
(* before left them.                                                       *)
(***************************************************************************)
StepTrackerApp ==
    /\ nops < MaxOps
    /\ nops' = nops + 1
    /\ \E r \in {load_data(files)} :
          /\ individuals' = r.inds
          /\ groups' = r.grps
    /\ last' = Returned("StepTrackerApp", TRUE, "loaded")
    /\ saved' = <<>>
    /\ UNCHANGED files
    /\ UNCHANGED treeVars

ReloadNext == Next \/ StepTrackerApp

ReloadSpec == Init /\ [][ReloadNext]_vars

(***************************************************************************)
(* One ConceptualBPlusTree on its own.  `tree` is the instantiation and    *)
(* the vector `data`; `call` is the last call made on it: the item or the  *)
(* keys it was given, and what it returned, in `ret` for remove, in `pos`  *)
(* for search and in `items` for getRange; `ref` is a map from key to item *)
(* that insert extends when the key is new and remove restricts.           *)
(***************************************************************************)
TreeKinds == {"Individual", "Group"}

TreeIds == 1..NumTreeKeys

TreeKeys(T) == IF T = "Individual" THEN TreeIds ELSE GroupIds

\* Two items for every key, so that the item stored under a key can be told
\* from another item offered for it.
TreeItems(T) ==
    IF T = "Individual"
    THEN {Individual(id, name, 30, 5, <<>>) : id \in TreeIds, name \in {"p", "q"}}
    ELSE {Group(gid, name, <<>>, 10) : gid \in GroupIds, name \in {"n1", "n2"}}

RefInsert(m, k, v) ==
    IF k \in DOMAIN m THEN m
    ELSE [x \in DOMAIN m \cup {k} |-> IF x = k THEN v ELSE m[x]]

RefRemove(m, k) == [x \in DOMAIN m \ {k} |-> m[x]]

\* A call on the tree, T being its instantiation.
tree_insert(T, item) ==
    /\ tree.T = T
    /\ tree' = [tree EXCEPT !.data = insert(tree.T, tree.data, item)]
    /\ ref' = RefInsert(ref, key_extractor(tree.T, item), item)
    /\ call' = [NoCall EXCEPT !.op = "insert", !.item = <<item>>]
    /\ UNCHANGED appVars

tree_remove(T, key) ==
    /\ tree.T = T
    /\ tree' = [tree EXCEPT !.data = remove_data(tree.T, tree.data, key)]
    /\ ref' = RefRemove(ref, key)
    /\ call' = [NoCall EXCEPT !.op = "remove", !.keys = <<key>>,
                              !.ret = remove_result(tree.T, tree.data, key)]
    /\ UNCHANGED appVars

tree_search(T, key) ==
    /\ tree.T = T
    /\ call' = [NoCall EXCEPT !.op = "search", !.keys = <<key>>,
                              !.pos = search(tree.T, tree.data, key)]
    /\ UNCHANGED <<tree, ref>>
    /\ UNCHANGED appVars

tree_getRange(T, start_key, end_key) ==
    /\ tree.T = T
    /\ call' = [NoCall EXCEPT !.op = "getRange", !.keys = <<start_key, end_key>>,
                              !.items = getRange(tree.T, tree.data, start_key, end_key)]
    /\ UNCHANGED <<tree, ref>>
    /\ UNCHANGED appVars

\* A tree is constructed empty; the application next to it makes no call.
TreeInit ==
    \E T \in TreeKinds :
        /\ tree = [T |-> T, data |-> <<>>]
        /\ ref = <<>>
        /\ call = NoCall
        /\ individuals = Empty.inds
        /\ groups = Empty.grps
        /\ files = Empty.files
        /\ last = Returned("start", TRUE, "loaded")
        /\ saved = <<>>
        /\ nops = 0

TreeNext ==
    \/ \E T \in TreeKinds : \E item \in TreeItems(T) : tree_insert(T, item)
    \/ \E T \in TreeKinds : \E key \in TreeKeys(T) : tree_remove(T, key)
    \/ \E T \in TreeKinds : \E key \in TreeKeys(T) : tree_search(T, key)
    \/ \E T \in TreeKinds : \E start_key \in TreeKeys(T), end_key \in TreeKeys(T) :
          tree_getRange(T, start_key, end_key)

TreeSpec == TreeInit /\ [][TreeNext]_vars

(***************************************************************************)
(* Views of a pair of stores, read off the sequences themselves (not       *)
(* through search).                                                        *)
(***************************************************************************)
StoredIds(inds) == {inds[p].id : p \in 1..Len(inds)}

StoredGroupIds(grps) == {grps[g].group_id : g \in 1..Len(grps)}

IndRecords(inds) == {inds[p] : p \in 1..Len(inds)}

GrpRecords(grps) == {grps[g] : g \in 1..Len(grps)}

Members(grp) == SeqToSet(grp.member_ids)

\* I1: every listed member is a stored individual that points back.
I1(inds, grps) ==
    \A g \in 1..Len(grps) : \A m \in Members(grps[g]) :
        \E p \in 1..Len(inds) :
            /\ inds[p].id = m
            /\ inds[p].current_group_id = grps[g].group_id

\* I2: every individual with a group points to a stored group listing it.
I2(inds, grps) ==
    \A p \in 1..Len(inds) :
        inds[p].current_group_id # NoGroup =>
            \E g \in 1..Len(grps) :
                /\ grps[g].group_id = inds[p].current_group_id
                /\ inds[p].id \in Members(grps[g])

(***************************************************************************)
(* C1: in every reachable state membership is symmetric: I1 and I2 hold.   *)
(* The code breaks I1 through the group id "", which create_group accepts  *)
(* and which is also the value of "no group".                              *)
(***************************************************************************)
C1_MembershipSymmetric ==
    I1(individuals, groups) /\ I2(individuals, groups)

(***************************************************************************)
(* C2: no individual id is listed in the member_ids of two different       *)
(* stored groups.                                                          *)
(***************************************************************************)
C2_AtMostOneGroup ==
    \A g \in 1..Len(groups) : \A h \in 1..Len(groups) :
        g # h => Members(groups[g]) \cap Members(groups[h]) = {}

(***************************************************************************)
(* C3: every stored group has at most MAX_MEMBERS member ids.              *)
(***************************************************************************)
C3_MemberCap ==
    \A g \in 1..Len(groups) : Len(groups[g].member_ids) <= MAX_MEMBERS

\* A create or merge has just succeeded and a group is exactly at the cap.
C3_Witness ==
    /\ last.op \in {"create_group", "merge_groups"}
    /\ last.ret
    /\ \E g \in 1..Len(groups) : Len(groups[g].member_ids) = MAX_MEMBERS

(***************************************************************************)
(* C4: no two stored individuals share an id and no two stored groups      *)
(* share a group_id.                                                       *)
(***************************************************************************)
C4_UniqueIds ==
    /\ \A p \in 1..Len(individuals) : \A q \in 1..Len(individuals) :
           p # q => individuals[p].id # individuals[q].id
    /\ \A g \in 1..Len(groups) : \A h \in 1..Len(groups) :
           g # h => groups[g].group_id # groups[h].group_id

\* A call that named an id already in its store has just been turned down,
\* with several records in both stores.
C4_Witness ==
    /\ last.msg \in {"individual_exists", "group_exists"}
    /\ Len(individuals) >= 2
    /\ Len(groups) >= 2

(***************************************************************************)
(* Pre- and postconditions of the calls, over the stores before (unprimed) *)
(* and after (primed) the step.                                            *)
(***************************************************************************)
GroupsWithId(grps, gid) == {g \in 1..Len(grps) : grps[g].group_id = gid}

\* The union of the member ids of the stored groups g1 and g2.
UnionMembers(grps, g1, g2) ==
    UNION {Members(grps[g]) : g \in GroupsWithId(grps, g1) \cup GroupsWithId(grps, g2)}

\* The candidates that name a stored individual with no group.
Survivors(inds, cands) ==
    {c \in SeqToSet(cands) :
        \E p \in 1..Len(inds) :
            inds[p].id = c /\ inds[p].current_group_id = NoGroup}

StoresUnchanged == individuals' = individuals /\ groups' = groups

MergePost(g1, g2, name, goal) ==
    LET U == UnionMembers(groups, g1, g2)
    IN /\ last'.ret
       /\ Cardinality(GroupsWithId(groups', g1)) = 1
       /\ \A g \in GroupsWithId(groups', g1) :
              /\ Members(groups'[g]) = U
              /\ Len(groups'[g].member_ids) = Cardinality(U)
              /\ groups'[g].group_name = name
              /\ groups'[g].weekly_group_goal = goal
       /\ GroupsWithId(groups', g2) = {}
       /\ \A p \in 1..Len(individuals') :
              individuals'[p].id \in U => individuals'[p].current_group_id = g1
       /\ {r \in GrpRecords(groups') : r.group_id # g1}
              = {r \in GrpRecords(groups) : r.group_id \notin {g1, g2}}
       /\ StoredIds(individuals') = StoredIds(individuals)
       /\ {r \in IndRecords(individuals') : r.id \notin U}
              = {r \in IndRecords(individuals) : r.id \notin U}

(***************************************************************************)
(* C5: when g1 and g2 are both stored, differ, and their members' union    *)
(* has at most MAX_MEMBERS ids, merge_groups(g1, g2, name, goal) succeeds; *)
(* afterwards g1 is stored with exactly the union, the new name and goal,  *)
(* g2 is not stored, every individual of the union has current_group_id    *)
(* g1, and every other group and individual is as before.                  *)
(***************************************************************************)
C5_MergeSucceeds ==
    [][last'.op = "merge_groups" =>
          \A g1 \in GroupIds, g2 \in GroupIds, lab \in MergeLabels :
              ( /\ g1 # g2
                /\ g1 \in StoredGroupIds(groups)
                /\ g2 \in StoredGroupIds(groups)
                /\ Cardinality(UnionMembers(groups, g1, g2)) <= MAX_MEMBERS
                /\ merge_groups(g1, g2, lab.name, lab.goal) )
              => MergePost(g1, g2, lab.name, lab.goal)]_vars

\* A merge has just succeeded into a group of four, next to another group.
C5_Witness ==
    /\ last.op = "merge_groups"
    /\ last.msg = "merged"
    /\ Len(groups) >= 2
    /\ \E g \in 1..Len(groups) : Len(groups[g].member_ids) = 4

(***************************************************************************)
(* C6: a merge_groups call that names a group id that is not stored, or    *)
(* two groups whose members' union has more than MAX_MEMBERS ids, fails    *)
(* and leaves both stores exactly as they were.                            *)
(***************************************************************************)
C6_MergeFailsUnchanged ==
    [][last'.op = "merge_groups" =>
          \A g1 \in GroupIds, g2 \in GroupIds, lab \in MergeLabels :
              ( /\ \/ g1 \notin StoredGroupIds(groups)
                   \/ g2 \notin StoredGroupIds(groups)
                   \/ Cardinality(UnionMembers(groups, g1, g2)) > MAX_MEMBERS
                /\ merge_groups(g1, g2, lab.name, lab.goal) )
              => (~last'.ret /\ StoresUnchanged)]_vars

\* A merge has just been turned down for two stored groups over the cap.
C6_Witness ==
    /\ last.op = "merge_groups"
    /\ last.msg = "merge_exceeds_max"
    /\ \E g \in 1..Len(groups) : \E h \in 1..Len(groups) :
           Cardinality(Members(groups[g]) \cup Members(groups[h])) > MAX_MEMBERS

CreatePost(gid, cands) ==
    LET S == Survivors(individuals, cands)
    IN /\ Cardinality(GroupsWithId(groups', gid)) = 1
       /\ \A g \in GroupsWithId(groups', gid) :
              /\ Members(groups'[g]) = S
              /\ Len(groups'[g].member_ids) = Cardinality(S)
       /\ \A p \in 1..Len(individuals') :
              individuals'[p].id \in S => individuals'[p].current_group_id = gid
       /\ {r \in GrpRecords(groups') : r.group_id # gid} = GrpRecords(groups)
       /\ StoredIds(individuals') = StoredIds(individuals)
       /\ {r \in IndRecords(individuals') : r.id \notin S}
              = {r \in IndRecords(individuals) : r.id \notin S}

(***************************************************************************)
(* C7: when create_group(gid, name, cands, goal) succeeds, the stored      *)
(* group's member_ids is exactly the deduplicated set of the candidates    *)
(* that named a stored individual with no group, each of them now has      *)
(* current_group_id gid, and every other individual and group is as        *)
(* before.                                                                 *)
(***************************************************************************)
C7_CreateSucceeds ==
    [][(last'.op = "create_group" /\ last'.ret) =>
          \A gid \in GroupIds, lab \in CreateLabels, cands \in Candidates :
              ( /\ gid \in StoredGroupIds(groups')
                /\ create_group(gid, lab.name, cands, lab.goal) )
              => CreatePost(gid, cands)]_vars

\* A create has just succeeded with a group at the cap, next to another group.
C7_Witness ==
    /\ last.op = "create_group"
    /\ last.msg = "created"
    /\ Len(groups) >= 2
    /\ \E g \in 1..Len(groups) : Len(groups[g].member_ids) = MAX_MEMBERS

(***************************************************************************)
(* C8 as stated: create_group fails with TooManyMembers whenever the raw   *)
(* candidate list has more than MAX_MEMBERS entries, and no group is       *)
(* created.                                                                *)
(***************************************************************************)
C8_Original ==
    [][last'.op = "create_group" =>
          \A gid \in GroupIds, lab \in CreateLabels, cands \in Candidates :
              ( /\ Len(cands) > MAX_MEMBERS
                /\ create_group(gid, lab.name, cands, lab.goal) )
              => ( /\ ~last'.ret
                   /\ last'.msg = "too_many_members"
                   /\ groups' = groups )]_vars

(***************************************************************************)
(* C8 amended: create_group fails whenever the raw candidate list has more *)
(* than MAX_MEMBERS entries, counted before filtering and deduplication,   *)
(* and no group is created; the failure is TooManyMembers when the group   *)
(* id is not stored, and the duplicate-id failure when it is.              *)
(***************************************************************************)
C8_RawCountCap ==
    [][last'.op = "create_group" =>
          \A gid \in GroupIds, lab \in CreateLabels, cands \in Candidates :
              ( /\ Len(cands) > MAX_MEMBERS
                /\ create_group(gid, lab.name, cands, lab.goal) )
              => ( /\ ~last'.ret
                   /\ groups' = groups
                   /\ last'.msg = IF gid \in StoredGroupIds(groups)
                                  THEN "group_exists"
                                  ELSE "too_many_members" )]_vars

\* A create has just been turned down for its raw count while at most
\* MAX_MEMBERS individuals are without a group, so that no list could have
\* more than MAX_MEMBERS survivors.
C8_Witness ==
    /\ last.op = "create_group"
    /\ last.msg = "too_many_members"
    /\ Len(individuals) > MAX_MEMBERS
    /\ Cardinality({p \in 1..Len(individuals) :
                        individuals[p].current_group_id = NoGroup}) <= MAX_MEMBERS

(***************************************************************************)
(* C9: create_group fails and leaves both stores unchanged in each error   *)
(* case: the group id is stored, the raw candidate count is over           *)
(* MAX_MEMBERS, or no candidate survives the filtering.  Stated by its     *)
(* contrapositive: a create_group step that returns true or changes a      *)
(* store is not the step of a call made in one of the error cases.         *)
(***************************************************************************)
C9_CreateFailsUnchanged ==
    [][(last'.op = "create_group" /\ ~(~last'.ret /\ StoresUnchanged)) =>
          \A gid \in GroupIds, lab \in CreateLabels, cands \in Candidates :
              ( \/ gid \in StoredGroupIds(groups)
                \/ Len(cands) > MAX_MEMBERS
                \/ Survivors(individuals, cands) = {} )
              => ~create_group(gid, lab.name, cands, lab.goal)]_vars

\* A create has just been turned down because no candidate survived, with
\* individuals and a group stored.
C9_Witness ==
    /\ last.op = "create_group"
    /\ last.msg = "no_valid_members"
    /\ Len(individuals) >= 1
    /\ Len(groups) >= 1

(***************************************************************************)
(* C10: delete_individual(id) on a stored individual who is a member of    *)
(* the stored group g (listed in g.member_ids, current_group_id = g's id)  *)
(* removes the individual's record and takes exactly that id out of        *)
(* g.member_ids; g stays stored and every other group and individual is    *)
(* as before.  The code leaves the id in the group whose id is "".         *)
(***************************************************************************)
C10_DeleteIndividualCascade ==
    [][last'.op = "delete_individual" =>
          \A id \in Ids : \A g \in 1..Len(groups) : \A p \in 1..Len(individuals) :
              ( /\ individuals[p].id = id
                /\ individuals[p].current_group_id = groups[g].group_id
                /\ id \in Members(groups[g])
                /\ delete_individual(id) )
              => ( /\ id \notin StoredIds(individuals')
                   /\ IndRecords(individuals') = IndRecords(individuals) \ {individuals[p]}
                   /\ Len(groups') = Len(groups)
                   /\ \A h \in 1..Len(groups) :
                          groups'[h] =
                              IF h = g
                              THEN [groups[g] EXCEPT !.member_ids =
                                       SelectSeq(groups[g].member_ids,
                                                 LAMBDA m : m # id)]
                              ELSE groups[h] )]_vars

(***************************************************************************)
(* C11: delete_group(g) on a stored group succeeds and removes the group   *)
(* record; current_group_id becomes none for exactly the stored            *)
(* individuals whose id was in g.member_ids; they stay stored, and every   *)
(* other individual record and every other group record is as before.      *)
(***************************************************************************)
C11_DeleteGroupCascade ==
    [][last'.op = "delete_group" =>
          \A gid \in GroupIds : \A g \in 1..Len(groups) :
              ( /\ groups[g].group_id = gid
                /\ delete_group(gid) )
              => ( /\ last'.ret
                   /\ gid \notin StoredGroupIds(groups')
                   /\ GrpRecords(groups') = GrpRecords(groups) \ {groups[g]}
                   /\ Len(groups') = Len(groups) - 1
                   /\ Len(individuals') = Len(individuals)
                   /\ \A p \in 1..Len(individuals) :
                          individuals'[p] =
                              IF individuals[p].id \in Members(groups[g])
                              THEN [individuals[p] EXCEPT !.current_group_id = NoGroup]
                              ELSE individuals[p] )]_vars

\* A group has just been deleted; its members are stored without a group
\* next to an individual that is still in another group.
C11_Witness ==
    /\ last.op = "delete_group"
    /\ last.msg = "group_deleted"
    /\ \E p \in 1..Len(individuals) : \E q \in 1..Len(individuals) :
           /\ individuals[p].current_group_id = NoGroup
           /\ individuals[q].current_group_id # NoGroup

(***************************************************************************)
(* C12: add_person(id, ...) with a stored id fails as "already exists" and *)
(* leaves the individuals store, and so the stored record and the size,    *)
(* as it was; with an id that is not stored it succeeds and stores one     *)
(* more record, holding the offered fields, no group and 0 points.         *)
(***************************************************************************)
C12_AddPerson ==
    [][last'.op = "add_person" =>
          \A id \in Ids, name \in PersonNames, age \in PersonAges,
             goal \in PersonGoals, steps \in PersonSteps :
              add_person(id, name, age, goal, steps) =>
                  IF id \in StoredIds(individuals)
                  THEN /\ ~last'.ret
                       /\ last'.msg = "individual_exists"
                       /\ individuals' = individuals
                  ELSE /\ last'.ret
                       /\ Len(individuals') = Len(individuals) + 1
                       /\ IndRecords(individuals') =
                              IndRecords(individuals) \cup
                                  {[id |-> id, name |-> name, age |-> age,
                                    daily_step_goal |-> goal,
                                    weekly_step_count |-> steps,
                                    current_group_id |-> NoGroup,
                                    points |-> 0]}]_vars

\* An add has just been turned down while a stored individual is in a group.
C12_Witness ==
    /\ last.op = "add_person"
    /\ ~last.ret
    /\ \E p \in 1..Len(individuals) : individuals[p].current_group_id # NoGroup

TreeAgreesWithRef ==
    /\ size(tree.data) = Cardinality(DOMAIN ref)
    /\ \A k \in TreeKeys(tree.T) :
           /\ search(tree.T, tree.data, k) # 0 <=> k \in DOMAIN ref
           /\ search(tree.T, tree.data, k) # 0 =>
                  /\ key_extractor(tree.T, tree.data[search(tree.T, tree.data, k)]) = k
                  /\ tree.data[search(tree.T, tree.data, k)] = ref[k]

\* The item search finds under k, <<>> when it finds none.
Found(T, data, k) ==
    IF search(T, data, k) = 0 THEN <<>> ELSE <<data[search(T, data, k)]>>

(***************************************************************************)
(* C14: under every sequence of insert and remove calls the tree stays     *)
(* equivalent to the reference map: after every call the tree agrees with  *)
(* the map (search, found key, size); remove(k) returns true exactly when  *)
(* k was in the map, and afterwards search finds nothing under k and what  *)
(* it found before under every other key.                                  *)
(***************************************************************************)
C14_TreeRefinesMap ==
    [][ /\ TreeAgreesWithRef'
        /\ \A T \in TreeKinds : \A k \in TreeKeys(T) :
               (call'.op = "remove" /\ tree_remove(T, k)) =>
                   /\ call'.ret = (k \in DOMAIN ref)
                   /\ search(T, tree'.data, k) = 0
                   /\ \A j \in TreeKeys(T) \ {k} :
                          Found(T, tree'.data, j) = Found(T, tree.data, j) ]_vars

\* A remove has just taken an item out and left at least two behind.
C14_Witness ==
    /\ call.op = "remove"
    /\ call.ret
    /\ Len(tree.data) >= 2

(***************************************************************************)
(* C15: after every sequence of insert and remove calls the sequence that  *)
(* getAllValues returns is strictly ascending by key under the comparator: *)
(* every item's key is less than the key of every later item.              *)
(***************************************************************************)
C15_StrictlyAscending ==
    \A i \in 1..Len(getAllValues(tree.data)) :
        \A j \in 1..Len(getAllValues(tree.data)) :
            i < j => comp(tree.T,
                          key_extractor(tree.T, getAllValues(tree.data)[i]),
                          key_extractor(tree.T, getAllValues(tree.data)[j]))

\* An insert has just been made into a tree that now holds every key, which
\* takes inserts at the front, in the middle and at the back to get to.
C15_Witness ==
    /\ call.op = "insert"
    /\ Len(tree.data) = Cardinality(TreeKeys(tree.T))
    /\ Len(tree.data) >= 3

(***************************************************************************)
(* C16: insert of an item whose key is stored changes nothing: the item    *)
(* stored under the key is the one that was there, not the offered one,    *)
(* and the size and every other item are as before.                        *)
(***************************************************************************)
C16_InsertExistingNoOp ==
    [][call'.op = "insert" =>
          \A T \in TreeKinds : \A item \in TreeItems(T) :
              ( /\ tree.T = T
                /\ search(T, tree.data, key_extractor(T, item)) # 0
                /\ tree_insert(T, item) )
              => ( /\ tree'.data = tree.data
                   /\ size(tree'.data) = size(tree.data)
                   /\ Found(T, tree'.data, key_extractor(T, item))
                          = Found(T, tree.data, key_extractor(T, item)) )]_vars

\* An insert has just offered an item under a key that holds another item,
\* in a tree with more items.
C16_Witness ==
    /\ call.op = "insert"
    /\ Len(tree.data) >= 2
    /\ \E p \in 1..Len(tree.data) :
           /\ key_extractor(tree.T, tree.data[p]) = key_extractor(tree.T, call.item[1])
           /\ tree.data[p] # call.item[1]

\* a <= b in the order of the keys of the instantiation T.
KeyLeq(T, a, b) == IF T = "Individual" THEN a <= b ELSE StrRank(a) <= StrRank(b)

\* The positions of data whose key is from start_key to end_key, both
\* included.
InRange(T, data, start_key, end_key) ==
    {i \in 1..Len(data) :
        /\ KeyLeq(T, start_key, key_extractor(T, data[i]))
        /\ KeyLeq(T, key_extractor(T, data[i]), end_key)}

(***************************************************************************)
(* C17: for every pair of keys, getRange(start, end) returns exactly the   *)
(* stored items whose key k has start <= k <= end, each once, in ascending *)
(* key order; it returns the empty sequence when start > end.              *)
(***************************************************************************)
C17_GetRangeInclusive ==
    [][call'.op = "getRange" =>
          \A T \in TreeKinds : \A a \in TreeKeys(T), b \in TreeKeys(T) :
              tree_getRange(T, a, b) =>
                  /\ SeqToSet(call'.items) =
                         {tree.data[i] : i \in InRange(T, tree.data, a, b)}
                  /\ Len(call'.items) = Cardinality(InRange(T, tree.data, a, b))
                  /\ \A i \in 1..Len(call'.items) : \A j \in 1..Len(call'.items) :
                         i < j => /\ KeyLeq(T, key_extractor(T, call'.items[i]),
                                            key_extractor(T, call'.items[j]))
                                  /\ key_extractor(T, call'.items[i])
                                         # key_extractor(T, call'.items[j])
                  /\ ~KeyLeq(T, a, b) => call'.items = <<>> ]_vars

\* A range scan has just returned some but not all of the stored items, the
\* last of them with the end key itself and the first with the start key.
C17_Witness ==
    /\ call.op = "getRange"
    /\ Len(call.items) >= 2
    /\ Len(call.items) < Len(tree.data)
    /\ key_extractor(tree.T, call.items[1]) = call.keys[1]
    /\ key_extractor(tree.T, call.items[Len(call.items)]) = call.keys[2]

(***************************************************************************)
(* C18: a getRange(a, b) call leaves the store as it was, so that the same *)
(* call made again returns the identical sequence; and search on the key   *)
(* of every item it returned finds a stored record with that key.          *)
(***************************************************************************)
C18_GetRangeRepeatable ==
    [][call'.op = "getRange" =>
          \A T \in TreeKinds : \A a \in TreeKeys(T), b \in TreeKeys(T) :
              tree_getRange(T, a, b) =>
                  /\ tree' = tree
                  /\ getRange(T, tree'.data, a, b) = call'.items
                  /\ \A i \in 1..Len(call'.items) :
                         /\ search(T, tree'.data,
                                   key_extractor(T, call'.items[i])) # 0
                         /\ key_extractor(T,
                                tree'.data[search(T, tree'.data,
                                               key_extractor(T, call'.items[i]))])
                                = key_extractor(T, call'.items[i]) ]_vars

\* A range scan has just returned the whole of a store of three or more.
C18_Witness ==
    /\ call.op = "getRange"
    /\ Len(tree.data) >= 3
    /\ Len(call.items) = Len(tree.data)

(***************************************************************************)
(* Eligibility and last-day steps as the specification words them, read    *)
(* off the records.                                                        *)
(***************************************************************************)
IsEligible(ind) ==
    /\ Len(ind.weekly_step_count) > 0
    /\ ind.weekly_step_count[Len(ind.weekly_step_count)] >= ind.daily_step_goal

Today(ind) == ind.weekly_step_count[Len(ind.weekly_step_count)]

EligiblePositions(inds) == {p \in 1..Len(inds) : IsEligible(inds[p])}

(***************************************************************************)
(* C19: get_top_3 returns at most 3 individuals, each of them eligible     *)
(* (step data whose last entry is at least the daily goal, whatever the    *)
(* earlier entries), in descending order of last-day steps, and no         *)
(* eligible individual that is left out has more last-day steps than one   *)
(* that is returned.                                                       *)
(***************************************************************************)
C19_TopThreeEligible ==
    [][last'.op = "get_top_3" =>
          /\ Len(last'.top_3_result) <= 3
          /\ \A i \in 1..Len(last'.top_3_result) :
                 last'.top_3_result[i] \in EligiblePositions(individuals)
          /\ \A i \in 1..Len(last'.top_3_result) :
                 \A j \in 1..Len(last'.top_3_result) :
                     i < j => Today(individuals[last'.top_3_result[i]])
                                 >= Today(individuals[last'.top_3_result[j]])
          /\ \A p \in EligiblePositions(individuals)
                         \ SeqToSet(last'.top_3_result) :
                 \A i \in 1..Len(last'.top_3_result) :
                     ~(Today(individuals[p])
                          > Today(individuals[last'.top_3_result[i]])) ]_vars

\* Three individuals have just been returned, one of them below the goal on
\* an earlier day, while another eligible one is left out and an individual
\* with more last-day steps than all of them has missed a higher goal.
C19_Witness ==
    /\ last.op = "get_top_3"
    /\ Len(last.top_3_result) = 3
    /\ EligiblePositions(individuals) \ SeqToSet(last.top_3_result) # {}
    /\ \E i \in 1..3 :
           \E d \in 1..Len(individuals[last.top_3_result[i]].weekly_step_count) :
               individuals[last.top_3_result[i]].weekly_step_count[d]
                   < individuals[last.top_3_result[i]].daily_step_goal
    /\ \E p \in 1..Len(individuals) :
           /\ individuals[p].weekly_step_count # <<>>
           /\ ~IsEligible(individuals[p])
           /\ \A i \in 1..3 :
                  Today(individuals[p]) > Today(individuals[last.top_3_result[i]])

\* The eligible individuals by last-day steps descending, equal ones in the
\* order of the store; the first three of them.
StableRank(inds, p) ==
    1 + Cardinality({q \in EligiblePositions(inds) :
                        \/ Today(inds[q]) > Today(inds[p])
                        \/ (Today(inds[q]) = Today(inds[p]) /\ q < p)})

StableTopThree(inds) ==
    [k \in 1..(IF Cardinality(EligiblePositions(inds)) < 3
               THEN Cardinality(EligiblePositions(inds)) ELSE 3) |->
        CHOOSE p \in EligiblePositions(inds) : StableRank(inds, p) = k]

(***************************************************************************)
(* C20: in get_top_3, eligible individuals with equal last-day steps come  *)
(* in the order of the store (ascending id): what is returned is the first *)
(* three of the stable sort of the store's order, the same for every       *)
(* execution on the same registry.  The code sorts with std::sort, which   *)
(* leaves the order of equal elements open.                                *)
(***************************************************************************)
C20_StableTieBreak ==
    [][last'.op = "get_top_3" =>
          last'.top_3_result = StableTopThree(individuals)]_vars

(***************************************************************************)
(* C21: check_individual_rewards(id), for a stored individual that the     *)
(* top three of this call hold at rank 0, 1 or 2, adds exactly 100, 75 or  *)
(* 50 to the points the individual already has, on every call; so two      *)
(* calls in a row for the first-ranked individual leave 200.               *)
(***************************************************************************)
RankPoints == <<100, 75, 50>>

C21_RewardsAdded ==
    [][\A id \in Ids :
          (last'.op = "check_individual_rewards" /\ check_individual_rewards(id))
          => \A rank \in 0..2 :
                (/\ SearchIndividual(individuals, id) # 0
                 /\ rank + 1 <= Len(last'.top_3_result)
                 /\ individuals[last'.top_3_result[rank + 1]].id = id)
                => LET p == SearchIndividual(individuals, id)
                   IN /\ SearchIndividual(individuals', id) = p
                      /\ individuals'[p].points
                            = individuals[p].points + RankPoints[rank + 1]]_vars

\* The first-ranked individual has just been rewarded a second time: 100
\* earned, 200 held.
C21_Witness ==
    /\ last.op = "check_individual_rewards"
    /\ last.points_earned = 100
    /\ Len(last.top_3_result) >= 1
    /\ individuals[last.top_3_result[1]].points = 200

(***************************************************************************)
(* C22: for every individual, the points never go down from one state to   *)
(* the next, whatever the call, for as long as the record stays stored.    *)
(***************************************************************************)
C22_PointsNeverDecrease ==
    [][\A id \in Ids :
          (SearchIndividual(individuals, id) # 0
           /\ SearchIndividual(individuals', id) # 0)
          => individuals'[SearchIndividual(individuals', id)].points
                >= individuals[SearchIndividual(individuals, id)].points]_vars

\* An individual holds points after a rewarding call, and a later call of
\* another kind has left them.
C22_Witness ==
    /\ last.op # "check_individual_rewards"
    /\ \E p \in 1..Len(individuals) : individuals[p].points > 0

(***************************************************************************)
(* C23: check_group_achievement(g) on a stored group reports as total the  *)
(* sum, over the member ids that name a stored individual, of all the      *)
(* entries of that individual's weekly_step_count (nothing for an empty    *)
(* history or a missing record), and reports achieved exactly when the     *)
(* total is at least weekly_group_goal.                                    *)
(***************************************************************************)
RECURSIVE SumFn(_, _)
SumFn(f, S) ==
    IF S = {} THEN 0
    ELSE LET x == CHOOSE y \in S : TRUE
         IN f[x] + SumFn(f, S \ {x})

EntriesTotal(ind) == SumFn(ind.weekly_step_count, DOMAIN ind.weekly_step_count)

GroupTotal(inds, grp) ==
    SumFn([id \in Members(grp) |->
              IF id \in StoredIds(inds)
              THEN EntriesTotal(CHOOSE ind \in IndRecords(inds) : ind.id = id)
              ELSE 0],
          Members(grp))

C24_NotFoundDistinct ==
    [][\A gid \in GroupIds :
          (/\ last'.op = "check_group_achievement"
           /\ SearchGroup(groups, gid) = 0
           /\ check_group_achievement(gid))
          => \A g \in 1..Len(groups) :
                (GroupTotal(individuals, groups[g]) < groups[g].weekly_group_goal)
                => last'.ret # CheckGroupAchievement(individuals, groups, files,
                                                     groups[g].group_id).ret]_vars

(***************************************************************************)
(* C25: generate_leader_board ranks every stored group exactly once, in    *)
(* descending order of its total weekly steps, and groups with equal       *)
(* totals in the order of the store (ascending group_id): the ranking is   *)
(* stable.                                                                 *)
(***************************************************************************)
C25_StableLeaderBoard ==
    last.op = "generate_leader_board"
    => /\ Len(last.board) = Len(groups)
       /\ \A g \in 1..Len(groups) :
              \E i \in 1..Len(last.board) :
                  /\ last.board[i].first = g
                  /\ last.board[i].second = GroupTotal(individuals, groups[g])
       /\ \A i \in 1..Len(last.board) : \A j \in 1..Len(last.board) :
              i < j => \/ last.board[i].second > last.board[j].second
                       \/ /\ last.board[i].second = last.board[j].second
                          /\ last.board[i].first < last.board[j].first

(***************************************************************************)
(* C26: suggest_goal_update follows the policy table for every stored      *)
(* individual.  Fewer than 7 step entries: InsufficientData, no suggested  *)
(* goal.  Otherwise, with achievedDays the number of entries >= goal and   *)
(* avg the mean of all entries: achievedDays >= 6 and avg > 1.2 * goal     *)
(* suggests floor(1.1 * goal); achievedDays <= 2 and avg < 0.8 * goal      *)
(* suggests floor(0.9 * goal); every other case suggests no change.  The   *)
(* mean and the products are the exact ones: avg > 1.2 * goal is           *)
(* 5 * total > 6 * goal * days.                                            *)
(***************************************************************************)
PolicyAchievedDays(ind) ==
    Cardinality({d \in 1..Len(ind.weekly_step_count) :
                    ind.weekly_step_count[d] >= ind.daily_step_goal})

PolicySuggestion(ind) ==
    LET goal == ind.daily_step_goal
        days == Len(ind.weekly_step_count)
        total == EntriesTotal(ind)
    IN IF days < 7 THEN [kind |-> "InsufficientData", goal |-> goal]
       ELSE IF PolicyAchievedDays(ind) >= 6 /\ 5 * total > 6 * goal * days
       THEN [kind |-> "Suggest", goal |-> (11 * goal) \div 10]
       ELSE IF PolicyAchievedDays(ind) <= 2 /\ 5 * total < 4 * goal * days
       THEN [kind |-> "Suggest", goal |-> (9 * goal) \div 10]
       ELSE [kind |-> "NoChange", goal |-> goal]

\* What the call reported, read off the message printed.
ReportedSuggestion(l) ==
    [kind |-> CASE l.msg = "not_enough_data" -> "InsufficientData"
                [] l.msg \in {"increase_goal", "lower_goal"} -> "Suggest"
                [] OTHER -> "NoChange",
     goal |-> l.new_goal]

C26_GoalPolicy ==
    [][\A id \in Ids :
          (/\ last'.op = "suggest_goal_update"
           /\ SearchIndividual(individuals, id) # 0
           /\ suggest_goal_update(id))
          => ReportedSuggestion(last')
                = PolicySuggestion(individuals[SearchIndividual(individuals, id)])]_vars

(***************************************************************************)
(* C27: the ranking operations are stateless except for awarded points.    *)
(* get_top_3, generate_leader_board, check_group_achievement and           *)
(* suggest_goal_update leave every individual and every group unchanged;   *)
(* check_individual_rewards changes nothing but the points of the          *)
(* individual it was called for, and nothing at all when that individual   *)
(* is not stored or not in the top three.                                  *)
(***************************************************************************)
ReadOnlyReports == {"get_top_3", "generate_leader_board", "suggest_goal_update"}

\* check_individual_rewards(id) has changed at most the points of id, and
\* nothing when id is not stored or not among the top three of the call.
RewardsFrame ==
    /\ groups' = groups
    /\ Len(individuals') = Len(individuals)
    /\ \A id \in Ids :
          check_individual_rewards(id)
          => /\ \A p \in 1..Len(individuals) :
                   /\ [individuals'[p] EXCEPT !.points = individuals[p].points]
                         = individuals[p]
                   /\ individuals[p].id # id => individuals'[p] = individuals[p]
             /\ (\/ SearchIndividual(individuals, id) = 0
                 \/ \A i \in 1..Len(last'.top_3_result) :
                        individuals[last'.top_3_result[i]].id # id)
                => individuals' = individuals

AchievementFrame ==
    /\ individuals' = individuals
    /\ Len(groups') = Len(groups)
    /\ \A gid \in GroupIds :
          check_group_achievement(gid)
          => \A g \in 1..Len(groups) :
                /\ [groups'[g] EXCEPT !.total_weekly_steps =
                                          groups[g].total_weekly_steps] = groups[g]
                /\ groups[g].group_id # gid => groups'[g] = groups[g]

C28_MemberIdsAscending ==
    \A g \in 1..Len(groups) :
        \A i \in 1..Len(groups[g].member_ids) :
            \A j \in 1..Len(groups[g].member_ids) :
                i < j => groups[g].member_ids[i] < groups[g].member_ids[j]

\* A group made from candidates given in descending order, from the middle
\* of which a member has then been deleted.
C28_Witness ==
    /\ last.op = "delete_individual"
    /\ last.ret
    /\ \E g \in 1..Len(groups) :
          \E i \in 1..(Len(groups[g].member_ids) - 1) :
              /\ groups[g].member_ids[i] + 1 < groups[g].member_ids[i + 1]
              /\ SearchIndividual(individuals, groups[g].member_ids[i] + 1) = 0

(***************************************************************************)
(* C29: merge_groups called with group_id_1 equal to group_id_2, naming    *)
(* one stored group, does not remove that group from the store and does    *)
(* not clear the current_group_id of its members.                          *)
(***************************************************************************)
C29_SelfMergeKeepsGroup ==
    [][\A gid \in GroupIds : \A lab \in MergeLabels :
          (/\ last'.op = "merge_groups"
           /\ SearchGroup(groups, gid) # 0
           /\ merge_groups(gid, gid, lab.name, lab.goal))
          => /\ SearchGroup(groups', gid) # 0
             /\ \A p \in 1..Len(individuals) :
                    individuals[p].current_group_id = gid
                    => \E q \in 1..Len(individuals') :
                          /\ individuals'[q].id = individuals[p].id
                          /\ individuals'[q].current_group_id = gid]_vars

(***************************************************************************)
(* C30: every registry state handed to the saver is consistent: at each    *)
(* call of _save_data by any operation, the calls of the two nested        *)
(* delete_group calls inside merge_groups included, the registry satisfies *)
(* I1, I2 and the member cap.                                              *)
(***************************************************************************)
C30_SavedStatesConsistent ==
    \A i \in 1..Len(saved) :
        /\ I1(saved[i].inds, saved[i].grps)
        /\ I2(saved[i].inds, saved[i].grps)
        /\ \A g \in 1..Len(saved[i].grps) :
               Len(saved[i].grps[g].member_ids) <= MAX_MEMBERS

(***************************************************************************)
(* C31: the delete operations never pass through a state with a dangling   *)
(* reference.  Started in a registry without one, delete_individual leaves *)
(* after each of its writes a registry in which no stored group lists an   *)
(* id with no stored individual, and delete_group one in which no stored   *)
(* individual references a group that is not stored.                       *)
(***************************************************************************)
NoDanglingMember(inds, grps) ==
    \A g \in 1..Len(grps) : Members(grps[g]) \subseteq StoredIds(inds)

NoDanglingGroup(inds, grps) ==
    \A p \in 1..Len(inds) :
        inds[p].current_group_id # NoGroup
        => inds[p].current_group_id \in StoredGroupIds(grps)

NoDangling(inds, grps) == NoDanglingMember(inds, grps) /\ NoDanglingGroup(inds, grps)

AllStepsSound(steps) ==
    \A i \in 1..Len(steps) : NoDangling(steps[i].inds, steps[i].grps)

C31_DeletesNeverDangle ==
    [][NoDangling(individuals, groups)
       => /\ \A id \in Ids :
                (last'.op = "delete_individual" /\ delete_individual(id))
                => AllStepsSound(DeleteIndividualSteps(individuals, groups, id))
          /\ \A gid \in GroupIds :
                (last'.op = "delete_group" /\ delete_group(gid))
                => AllStepsSound(DeleteGroupSteps(individuals, groups, gid))]_vars

\* The steps are those of the calls: the last one is the registry the call
\* leaves.
DeleteStepsEndInOutcome ==
    [][/\ \A id \in Ids :
             (last'.op = "delete_individual" /\ last'.ret /\ delete_individual(id))
             => LET steps == DeleteIndividualSteps(individuals, groups, id)
                IN steps[Len(steps)] = Snapshot(individuals', groups')
       /\ \A gid \in GroupIds :
             (last'.op = "delete_group" /\ last'.ret /\ delete_group(gid))
             => LET steps == DeleteGroupSteps(individuals, groups, gid)
                IN steps[Len(steps)] = Snapshot(individuals', groups')]_vars

(***************************************************************************)
(* C32: the save/load round trip keeps identity and membership.  For a     *)
(* registry whose files are the ones _save_data writes for it (individuals *)
(* with an empty weekly_step_count included), loading the files yields the *)
(* same set of individual ids, the same groups with the same member_ids,   *)
(* and the same current_group_id for every individual.                     *)
(***************************************************************************)
GroupMembership(grps) ==
    {[group_id |-> grps[g].group_id, member_ids |-> grps[g].member_ids] :
        g \in 1..Len(grps)}

GroupOfIndividual(inds) ==
    {[id |-> inds[p].id, current_group_id |-> inds[p].current_group_id] :
        p \in 1..Len(inds)}

C32_RoundTrip ==
    [][(last'.op = "StepTrackerApp" /\ files = save_data(individuals, groups))
       => /\ StoredIds(individuals') = StoredIds(individuals)
          /\ GroupMembership(groups') = GroupMembership(groups)
          /\ GroupOfIndividual(individuals') = GroupOfIndividual(individuals)
          /\ (I1(individuals, groups) /\ I2(individuals, groups))
                => (I1(individuals', groups') /\ I2(individuals', groups'))]_vars

(***************************************************************************)
(* C33: after check_individual_rewards awards points, a registry loaded    *)
(* from the files written by that call's _save_data holds the same points  *)
(* for that individual as the registry in memory.                          *)
(***************************************************************************)
C33_PointsSaved ==
    [][\A id \in Ids :
          (/\ last'.op = "check_individual_rewards"
           /\ last'.msg = "points_earned"
           /\ check_individual_rewards(id))
          => \E r \in {load_data(files')} :
                /\ SearchIndividual(r.inds, id) # 0
                /\ r.inds[SearchIndividual(r.inds, id)].points
                      = individuals'[SearchIndividual(individuals', id)].points]_vars

=============================================================================
